---- MODULE Spec2Model ----
(***************************************************************************)
(* A model of assemble.py, the two-pass assembler of the 64-bit micro-RISC *)
(* (read_source, first_pass, second_pass, emit_inst_word, write_rom, main).*)
(*                                                                         *)
(* Representation.  A Python str of the source file is a TLA+ string; the  *)
(* model's alphabet is printable ASCII plus tab.  A character of an        *)
(* unescaped string literal is its code point (a natural number), because  *)
(* unicode_escape produces NUL, control and astral characters.  A Python   *)
(* int that takes part in the word encoding is the set of the positions of *)
(* its 1 bits (Python ints are unbounded; a 64-bit word does not fit the   *)
(* model checker's integers).                                              *)
(***************************************************************************)
EXTENDS Integers, Sequences, FiniteSets, TLC

\* ------------------------------------------------------------------ bounds

MaxLines == 3
LongLen == 150
MaxPad == 4
ImmLow == 3

\* ------------------------------------------------------------- characters

Char(s, i) == SubSeq(s, i, i)

UpperAlpha == "ABCDEFGHIJKLMNOPQRSTUVWXYZ"
LowerAlpha == "abcdefghijklmnopqrstuvwxyz"
DecDigits == "0123456789"
HexLower == "0123456789abcdef"
HexUpper == "0123456789ABCDEF"
\* The printable ASCII characters in code point order: 32 (space) to 95, and
\* 97 to 126.  Code point 96 cannot be written in a string of this language
\* and is outside the model's alphabet.
AsciiLo == " !\"#$%&'()*+,-./0123456789:;<=>?@ABCDEFGHIJKLMNOPQRSTUVWXYZ[\\]^_"
AsciiHi == "abcdefghijklmnopqrstuvwxyz{|}~"

\* The 1-based position of character c in string t, 0 when absent.
IndexIn(c, t) ==
    IF \E k \in 1..Len(t) : Char(t, k) = c
    THEN CHOOSE k \in 1..Len(t) : Char(t, k) = c
    ELSE 0

IsIn(c, t) == IndexIn(c, t) # 0

\* ord() of a character of the source text.
Ord(c) ==
    IF c = "\t" THEN 9
    ELSE IF IndexIn(c, AsciiLo) # 0 THEN 31 + IndexIn(c, AsciiLo)
    ELSE 96 + IndexIn(c, AsciiHi)

\* \s of the re module, on the model's alphabet.
IsSpace(c) == c \in {" ", "\t"}
\* \w of the re module, on the model's alphabet.
IsWordChar(c) == IsIn(c, UpperAlpha) \/ IsIn(c, LowerAlpha) \/ IsIn(c, DecDigits) \/ c = "_"
IsIdentStart(c) == IsIn(c, UpperAlpha) \/ IsIn(c, LowerAlpha) \/ c = "_"

RECURSIVE MapChars(_, _, _)
\* str.upper() / str.lower(): every character found in `from` becomes the
\* character at the same place of `to`.  The string is mapped half by half, so
\* that the evaluation nests to the logarithm of its length.
MapChars(s, from, to) ==
    IF s = "" THEN ""
    ELSE IF Len(s) = 1
    THEN LET k == IndexIn(s, from) IN IF k = 0 THEN s ELSE Char(to, k)
    ELSE LET mid == Len(s) \div 2
         IN MapChars(SubSeq(s, 1, mid), from, to)
              \o MapChars(SubSeq(s, mid + 1, Len(s)), from, to)

Upper(s) == MapChars(s, LowerAlpha, UpperAlpha)
Lower(s) == MapChars(s, UpperAlpha, LowerAlpha)

RECURSIVE LStrip(_)
LStrip(s) == IF s # "" /\ IsSpace(Char(s, 1)) THEN LStrip(Tail(s)) ELSE s

RECURSIVE RStrip(_)
RStrip(s) ==
    IF s # "" /\ IsSpace(Char(s, Len(s))) THEN RStrip(SubSeq(s, 1, Len(s) - 1)) ELSE s

\* str.strip()
Strip(s) == RStrip(LStrip(s))

StartsWith(s, p) == Len(s) >= Len(p) /\ SubSeq(s, 1, Len(p)) = p
EndsWith(s, p) == Len(s) >= Len(p) /\ SubSeq(s, Len(s) - Len(p) + 1, Len(s)) = p

RECURSIVE Rep(_, _)
\* The string of n characters c.
Rep(c, n) ==
    IF n = 0 THEN ""
    ELSE IF n = 1 THEN c
    ELSE Rep(c, n \div 2) \o Rep(c, n - (n \div 2))

\* --------------------------------------------------------------- values

NoErr == "none"
DuplicateLabel == "ValueError: Duplicate label"
BadRegister == "ValueError: Bad register"
BadLiteral == "ValueError: invalid literal for int()"
UnknownOp == "ValueError: Unknown op/line"
BadEscape == "UnicodeDecodeError"
IndexError == "IndexError: list index out of range"

\* The errors a translation can raise.
Errors == {DuplicateLabel, BadRegister, BadLiteral, UnknownOp, BadEscape, IndexError}

\* ------------------------------------------------------------ read_source

\* re.split(r'[;#]', ln, 1)[0]: the text before the first ';' or '#'.
StripComment(ln) ==
    LET cut == {k \in 1..Len(ln) : Char(ln, k) \in {";", "#"}}
    IN IF cut = {} THEN ln
       ELSE SubSeq(ln, 1, (CHOOSE k \in cut : \A m \in cut : k <= m) - 1)

\* The list of (orig, code) pairs read_source returns for the file's lines.
read_source(file) ==
    [n \in 1..Len(file) |-> [orig |-> file[n], code |-> StripComment(file[n])]]

\* ------------------------------------------------------------- first_pass

\* re.match(r'^\.?[A-Za-z_]\w*:$', s)
IsLabelLine(s) ==
    LET body == IF StartsWith(s, ".") THEN SubSeq(s, 2, Len(s) - 1)
                ELSE SubSeq(s, 1, Len(s) - 1)
    IN /\ EndsWith(s, ":")
       /\ Len(body) >= 1
       /\ IsIdentStart(Char(body, 1))
       /\ \A k \in 2..Len(body) : IsWordChar(Char(body, k))

RECURSIVE SkipSpaces(_, _)
\* The first position from k on that holds no whitespace.
SkipSpaces(s, k) ==
    IF k <= Len(s) /\ IsSpace(Char(s, k)) THEN SkipSpaces(s, k + 1) ELSE k

NoMatch == [matched |-> FALSE, kind |-> "", raw |-> ""]

\* re.match(r'^\.(string|asciz)\s+"(.*)"\s*$', s): groups 1 and 2.  The greedy
\* (.*) ends before the last '"' of s, which only whitespace may follow.
MatchStringDirective(s) ==
    LET kind == IF StartsWith(s, ".string") THEN "string"
                ELSE IF StartsWith(s, ".asciz") THEN "asciz"
                ELSE ""
        ws == Len(kind) + 2
        open == SkipSpaces(s, ws)
        quotes == {k \in 1..Len(s) : Char(s, k) = "\""}
        close == CHOOSE k \in quotes : \A m \in quotes : m <= k
    IN IF /\ kind # ""
          /\ open > ws
          /\ open <= Len(s)
          /\ Char(s, open) = "\""
          /\ close > open
          /\ \A k \in (close + 1)..Len(s) : IsSpace(Char(s, k))
       THEN [matched |-> TRUE, kind |-> kind, raw |-> SubSeq(s, open + 1, close - 1)]
       ELSE NoMatch

HexVal(c) ==
    IF IsIn(c, HexLower) THEN IndexIn(c, HexLower) - 1 ELSE IndexIn(c, HexUpper) - 1
IsHex(c) == IsIn(c, HexLower) \/ IsIn(c, HexUpper)
IsOct(c) == IsIn(c, "01234567")

RECURSIVE HexNum(_, _)
\* The value of the hexadecimal digits of s, after the value acc.
HexNum(s, acc) ==
    IF s = "" THEN acc ELSE HexNum(Tail(s), 16 * acc + HexVal(Char(s, 1)))

RECURSIVE OctNum(_, _)
OctNum(s, acc) ==
    IF s = "" THEN acc ELSE OctNum(Tail(s), 8 * acc + HexVal(Char(s, 1)))

\* The one-character escapes of the unicode_escape codec.
SimpleEscapes == "\\'\"abfnrtv"
SimpleEscapeCodes == <<92, 39, 34, 7, 8, 12, 10, 13, 9, 11>>

\* One step of the unicode_escape decoder on s: st = [k, txt, err] holds the
\* next position to read, the code points decoded so far and the error.  A
\* literal of the model holds no \N{...} escape and no character beyond ASCII.
UnescapeStep(s, st) ==
    LET k == st.k
        c == Char(s, k + 1)
        width == IF c = "x" THEN 2 ELSE IF c = "u" THEN 4 ELSE 8
        digits == SubSeq(s, k + 2, k + 1 + width)
        octlen == IF k + 2 <= Len(s) /\ IsOct(Char(s, k + 2))
                  THEN (IF k + 3 <= Len(s) /\ IsOct(Char(s, k + 3)) THEN 3 ELSE 2)
                  ELSE 1
    IN IF st.err # NoErr \/ k > Len(s) THEN st
       ELSE IF Char(s, k) # "\\"
       THEN [st EXCEPT !.k = k + 1, !.txt = Append(@, Ord(Char(s, k)))]
       ELSE IF k = Len(s) THEN [st EXCEPT !.err = BadEscape]
       ELSE IF IsIn(c, SimpleEscapes)
       THEN [st EXCEPT !.k = k + 2,
                       !.txt = Append(@, SimpleEscapeCodes[IndexIn(c, SimpleEscapes)])]
       ELSE IF IsOct(c)
       THEN [st EXCEPT !.k = k + 1 + octlen,
                       !.txt = Append(@, OctNum(SubSeq(s, k + 1, k + octlen), 0))]
       ELSE IF c \in {"x", "u", "U"}
       THEN IF /\ k + 1 + width <= Len(s)
               /\ \A m \in 1..width : IsHex(Char(digits, m))
               /\ HexNum(digits, 0) <= 1114111
            THEN [st EXCEPT !.k = k + 2 + width, !.txt = Append(@, HexNum(digits, 0))]
            ELSE [st EXCEPT !.err = BadEscape]
       ELSE [st EXCEPT !.k = k + 2, !.txt = @ \o <<92, Ord(c)>>]

RECURSIVE UnescapeLoop(_, _, _)
\* n steps of the decoder, the first half and then the second (the test on
\* half.k has the first half evaluated before the second starts).
UnescapeLoop(s, st, n) ==
    IF n = 0 THEN st
    ELSE IF n = 1 THEN UnescapeStep(s, st)
    ELSE LET half == UnescapeLoop(s, st, n \div 2)
         IN IF half.k > 0 THEN UnescapeLoop(s, half, n - (n \div 2)) ELSE half

\* bytes(s, "utf8").decode("unicode_escape"): [err, txt].  Every step reads at
\* least one character, so Len(s) steps read all of s.
unescape_string(s) ==
    LET st == UnescapeLoop(s, [k |-> 1, txt |-> <<>>, err |-> NoErr], Len(s))
    IN [err |-> st.err, txt |-> st.txt]

\* ------------------------------------------------------ regnum, parse_imm

Ok(v) == [err |-> NoErr, val |-> v]
Fail(e) == [err |-> e, val |-> 0]

\* regnum(r): re.match(r'^[rR]?([0-7])$', r), then int() of the digit.
regnum(r) ==
    LET d == IF Len(r) = 2 /\ Char(r, 1) \in {"r", "R"} THEN Char(r, 2) ELSE r
    IN IF Len(d) = 1 /\ IsOct(d) THEN Ok(HexVal(d)) ELSE Fail(BadRegister)

RECURSIVE DigitsValue(_, _, _)
\* The value in `base` of the digits of s (its underscores skipped), after acc.
DigitsValue(s, base, acc) ==
    IF s = "" THEN acc
    ELSE IF Char(s, 1) = "_" THEN DigitsValue(Tail(s), base, acc)
    ELSE DigitsValue(Tail(s), base, base * acc + HexVal(Char(s, 1)))

\* The digits of a literal: each a digit of the base or an underscore, the
\* underscores single, none last and none first unless a prefix came before.
ValidDigits(body, base, prefixed) ==
    /\ body # ""
    /\ \A k \in 1..Len(body) :
          \/ IsHex(Char(body, k)) /\ HexVal(Char(body, k)) < base
          \/ Char(body, k) = "_"
    /\ Char(body, Len(body)) # "_"
    /\ prefixed \/ Char(body, 1) # "_"
    /\ \A k \in 1..(Len(body) - 1) : ~(Char(body, k) = "_" /\ Char(body, k + 1) = "_")

ParseDigits(body, base, prefixed, neg) ==
    IF ValidDigits(body, base, prefixed)
    THEN Ok(IF neg THEN 0 - DigitsValue(body, base, 0) ELSE DigitsValue(body, base, 0))
    ELSE Fail(BadLiteral)

\* The literal after its sign: the base's prefix (0x, 0b), if any, and digits.
ParseUnsigned(u, base, neg) ==
    IF \/ base = 16 /\ (StartsWith(u, "0x") \/ StartsWith(u, "0X"))
       \/ base = 2 /\ (StartsWith(u, "0b") \/ StartsWith(u, "0B"))
    THEN ParseDigits(SubSeq(u, 3, Len(u)), base, TRUE, neg)
    ELSE ParseDigits(u, base, FALSE, neg)

ParseSigned(t, base) ==
    IF t # "" /\ Char(t, 1) \in {"+", "-"}
    THEN ParseUnsigned(Tail(t), base, Char(t, 1) = "-")
    ELSE ParseUnsigned(t, base, FALSE)

\* int(s, base) for base 2, 10 or 16: surrounding whitespace, a sign, the base's
\* prefix, then digits, single underscores between them.
ParseInt(s, base) == ParseSigned(Strip(s), base)

\* parse_imm after s = s.strip()
ParseImmStripped(s) ==
    IF StartsWith(s, "0x") \/ StartsWith(s, "0X") THEN ParseInt(s, 16)
    ELSE IF EndsWith(s, "b") THEN ParseInt(SubSeq(s, 1, Len(s) - 1), 2)
    ELSE ParseInt(s, 10)

\* parse_imm(s)
parse_imm(s) == ParseImmStripped(Strip(s))

\* --------------------------------------------------------- emit_inst_word

\* x & (2^k - 1) of a Python int x of either sign: its low k bits.
LowBits(x, k) == x % (2 ^ k)

\* The set of the positions of the 1 bits of the natural number n < 2^31.
Bits(n) == {b \in 0..30 : (n \div (2 ^ b)) % 2 = 1}
\* w << k, w | v and w & 0xFFFFFFFFFFFFFFFF on sets of bit positions.
Shl(w, k) == {b + k : b \in w}
BitOr(w, v) == w \cup v
Mask64(w) == w \cap (0..63)

\* A variant of emit_inst_word that shifts rs by 53.
emit_inst_word_Rs53(opcode, rd, rs, imm16) ==
    Mask64(BitOr(BitOr(BitOr(Shl(Bits(LowBits(opcode, 4)), 60),
                             Shl(Bits(LowBits(rd, 3)), 57)),
                       Shl(Bits(LowBits(rs, 3)), 53)),
                 Bits(LowBits(imm16, 16))))

\* emit_inst_word(opcode, rd, rs, imm16): the 64-bit word, as its set of 1 bits.
emit_inst_word(opcode, rd, rs, imm16) ==
    Mask64(BitOr(BitOr(BitOr(Shl(Bits(LowBits(opcode, 4)), 60),
                             Shl(Bits(LowBits(rd, 3)), 57)),
                       Shl(Bits(LowBits(rs, 3)), 54)),
                 Bits(LowBits(imm16, 16))))

\* ---------------------------------------------------- first_pass, a line

NoPayload == "None"
\* The tuples (kind, payload) of the list `expanded`.
Unit(kind, payload) == [kind |-> kind, payload |-> payload]

\* expanded.append((kind, payload)); pc += width.  unit_pc is a history of the
\* pass: the pc the pass held when it appended each unit.
AppendUnit(st, kind, payload, width) ==
    [st EXCEPT !.expanded = Append(@, Unit(kind, payload)),
               !.unit_pc = Append(@, st.pc),
               !.pc = @ + width]

RECURSIVE AppendBytes(_, _, _, _)
\* for ch in txt: expanded.append(("BYTE", ch)); pc += 2, for the characters
\* lo..hi of txt in order: those of the first half, then those of the second.
AppendBytes(st, txt, lo, hi) ==
    IF lo > hi THEN st
    ELSE IF lo = hi THEN AppendUnit(st, "BYTE", txt[lo], 2)
    ELSE LET mid == (lo + hi) \div 2
             half == AppendBytes(st, txt, lo, mid)
         IN IF half.pc >= 0 THEN AppendBytes(half, txt, mid + 1, hi) ELSE half

\* A variant of RecordLabel that binds the number of units, not of words.
RecordLabel_UnitIndex(st, lab) ==
    IF lab \in DOMAIN st.labels
    THEN [st EXCEPT !.err = DuplicateLabel]
    ELSE [st EXCEPT !.labels = [n \in DOMAIN st.labels \cup {lab} |->
                                   IF n = lab THEN Len(st.expanded) ELSE st.labels[n]]]

\* A variant of RecordLabel that binds a name again instead of raising.
RecordLabel_Rebind(st, lab) ==
    [st EXCEPT !.labels = [n \in DOMAIN st.labels \cup {lab} |->
                              IF n = lab THEN st.pc ELSE st.labels[n]]]

\* The label branch: raise on a name already bound, else labels[lab] = pc.
RecordLabel(st, lab) ==
    IF lab \in DOMAIN st.labels
    THEN [st EXCEPT !.err = DuplicateLabel]
    ELSE [st EXCEPT !.labels = [n \in DOMAIN st.labels \cup {lab} |->
                                   IF n = lab THEN st.pc ELSE st.labels[n]]]

\* A variant of ExpandText that leaves out the NUL of .asciz.
ExpandText_NoNul(st, kind, u) ==
    IF u.err # NoErr THEN [st EXCEPT !.err = u.err]
    ELSE AppendBytes(st, u.txt, 1, Len(u.txt))

\* The directive's loop over the unescaped text u, and the NUL of .asciz.
ExpandText(st, kind, u) ==
    IF u.err # NoErr THEN [st EXCEPT !.err = u.err]
    ELSE IF kind = "asciz"
    THEN AppendUnit(AppendBytes(st, u.txt, 1, Len(u.txt)), "BYTE", 0, 2)
    ELSE AppendBytes(st, u.txt, 1, Len(u.txt))

\* The .string/.asciz branch, m the match of the directive's pattern.
ExpandString(st, m) == ExpandText(st, m.kind, unescape_string(m.raw))

\* The branches below the blank line's and the label's, m the match of the
\* directive's pattern on s.
ClassifyRest(st, s, m) ==
    IF m.matched THEN ExpandString(st, m)
    ELSE IF Lower(s) = ".halt" THEN AppendUnit(st, "HALT", NoPayload, 1)
    ELSE AppendUnit(st, "INST", s, 1)

\* The loop's body on s = code.strip().
ClassifyLine(st, s) ==
    IF s = "" THEN st
    ELSE IF IsLabelLine(s) THEN RecordLabel(st, SubSeq(s, 1, Len(s) - 1))
    ELSE ClassifyRest(st, s, MatchStringDirective(s))

\* The body of first_pass's loop for one (orig, code) pair, on the pass's state
\* st = [labels, expanded, pc, unit_pc, err].
FirstPassLine(st, code) == ClassifyLine(st, Strip(code))

FirstPassStart ==
    [labels |-> <<>>, expanded |-> <<>>, pc |-> 0, unit_pc |-> <<>>, err |-> NoErr]

RECURSIVE FirstPassFrom(_, _, _)
\* first_pass's loop from line n on; an error ends it.
FirstPassFrom(st, lines, n) ==
    IF n > Len(lines) \/ st.err # NoErr THEN st
    ELSE FirstPassFrom(FirstPassLine(st, lines[n].code), lines, n + 1)

\* first_pass(lines)
first_pass(lines) == FirstPassFrom(FirstPassStart, lines, 1)

\* --------------------------------------------------- second_pass, a unit

IsSep(c) == c = "," \/ IsSpace(c)

\* re.split(r'[,\s]+', s) for a non-empty s: the maximal runs of characters
\* that are no separators, in order, with an empty string in front when s
\* starts with a separator and one behind when it ends with one.
Split(s) ==
    LET starts == {k \in 1..Len(s) :
                     ~IsSep(Char(s, k)) /\ (k = 1 \/ IsSep(Char(s, k - 1)))}
        EndOf(k) == CHOOSE e \in k..Len(s) :
                      /\ \A m \in k..e : ~IsSep(Char(s, m))
                      /\ e = Len(s) \/ IsSep(Char(s, e + 1))
        Nth(n) == CHOOSE k \in starts : Cardinality({j \in starts : j < k}) = n - 1
        runs == [n \in 1..Cardinality(starts) |-> SubSeq(s, Nth(n), EndOf(Nth(n)))]
    IN (IF IsSep(Char(s, 1)) THEN <<"">> ELSE <<>>)
         \o runs
         \o (IF IsSep(Char(s, Len(s))) THEN <<"">> ELSE <<>>)

\* x & mask of a parsed value v = [err, val], the mask of `width` bits.
Masked(v, width) == IF v.err # NoErr THEN v ELSE Ok(LowBits(v.val, width))

\* A variant of Target that keeps all 16 bits of a label's address.
Target_NoMask(tok, labels) ==
    IF tok \in DOMAIN labels THEN Ok(LowBits(labels[tok], 16))
    ELSE Masked(parse_imm(tok), 8)

\* A jump or branch target: a known label's address, else an immediate; & 0xFF.
Target(tok, labels) ==
    IF tok \in DOMAIN labels THEN Ok(LowBits(labels[tok], 8))
    ELSE Masked(parse_imm(tok), 8)

\* parts[n] of Python (from 0): an IndexError beyond the list.
Part(parts, n) == IF n + 1 <= Len(parts) THEN Ok(parts[n + 1]) ELSE Fail(IndexError)

\* regnum(parts[n])
RegOperand(parts, n) ==
    IF n + 1 <= Len(parts) THEN regnum(parts[n + 1]) ELSE Fail(IndexError)

\* parse_imm(parts[n]) & mask, the mask of `width` bits.
ImmOperand(parts, n, width) ==
    IF n + 1 <= Len(parts) THEN Masked(parse_imm(parts[n + 1]), width)
    ELSE Fail(IndexError)

\* parts[n], as a label or an immediate.
TargetOperand(parts, n, labels) ==
    IF n + 1 <= Len(parts) THEN Target(parts[n + 1], labels) ELSE Fail(IndexError)

\* The word of opcode and the operands a and b, evaluated in this order: the
\* first error is raised.  b is the rs field when isreg, else the immediate.
TwoOperands(opcode, a, b, isreg) ==
    IF a.err # NoErr THEN a
    ELSE IF b.err # NoErr THEN b
    ELSE IF isreg THEN Ok(emit_inst_word(opcode, a.val, b.val, 0))
    ELSE Ok(emit_inst_word(opcode, a.val, 0, b.val))

\* ADD, SUB, SHL: rd = regnum(parts[1]); rs = regnum(parts[2]).
EncodeRegReg(opcode, parts) ==
    TwoOperands(opcode, RegOperand(parts, 1), RegOperand(parts, 2), TRUE)

\* LI, LD, ST: rd = regnum(parts[1]); parse_imm(parts[2]) & mask.
EncodeRegImm(opcode, parts, width) ==
    TwoOperands(opcode, RegOperand(parts, 1), ImmOperand(parts, 2, width), FALSE)

\* JZ: rd = regnum(parts[1]); the displacement parts[2].
EncodeJZ(parts, labels) ==
    TwoOperands(6, RegOperand(parts, 1), TargetOperand(parts, 2, labels), FALSE)

\* JMP: the target parts[1].
EncodeJMP(parts, labels) ==
    TwoOperands(7, Ok(0), TargetOperand(parts, 1, labels), FALSE)

\* The dispatch on op = parts[0].upper().
EncodeOp(op, parts, labels) ==
    CASE op = "NOP" -> Ok(emit_inst_word(0, 0, 0, 0))
      [] op = "ADD" -> EncodeRegReg(1, parts)
      [] op = "SUB" -> EncodeRegReg(2, parts)
      [] op = "LI" -> EncodeRegImm(3, parts, 16)
      [] op = "LD" -> EncodeRegImm(4, parts, 8)
      [] op = "ST" -> EncodeRegImm(5, parts, 8)
      [] op = "JZ" -> EncodeJZ(parts, labels)
      [] op = "JMP" -> EncodeJMP(parts, labels)
      [] op = "SHL" -> EncodeRegReg(9, parts)
      [] op = "HALT" -> Ok(emit_inst_word(15, 0, 0, 0))
      [] OTHER -> Fail(UnknownOp)

EncodeParts(parts, labels) == EncodeOp(Upper(parts[1]), parts, labels)

\* The INST branch of second_pass: [err, val], val the instruction word.
EncodeInst(payload, labels) == EncodeParts(Split(Strip(payload)), labels)

\* A variant of EncodeByte that adds 1 to pc.
EncodeByte_Adv1(payload) ==
    [err |-> NoErr,
     words |-> <<emit_inst_word(3, 0, 0, payload), emit_inst_word(5, 0, 0, 255)>>,
     adv |-> 1]

\* A variant of EncodeByte that stores before it loads.
EncodeByte_StoreFirst(payload) ==
    [err |-> NoErr,
     words |-> <<emit_inst_word(5, 0, 0, 255), emit_inst_word(3, 0, 0, payload)>>,
     adv |-> 2]

\* The BYTE branch: LI r0, val and ST r0, 0xFF, and pc += 2.
EncodeByte(payload) ==
    [err |-> NoErr,
     words |-> <<emit_inst_word(3, 0, 0, payload), emit_inst_word(5, 0, 0, 255)>>,
     adv |-> 2]

\* The HALT branch: the word of opcode 0xF, and pc += 1.
EncodeHalt ==
    [err |-> NoErr, words |-> <<emit_inst_word(15, 0, 0, 0)>>, adv |-> 1]

\* The INST branch's end: outwords.append(instr_word) and pc += 1.
AppendInst(w) ==
    IF w.err # NoErr THEN [err |-> w.err, words |-> <<>>, adv |-> 0]
    ELSE [err |-> NoErr, words |-> <<w.val>>, adv |-> 1]

\* The body of second_pass's loop for one unit: the words it appends to
\* outwords and what it adds to pc, or the error it raises.
SecondPassUnit(unit, labels) ==
    IF unit.kind = "BYTE" THEN EncodeByte(unit.payload)
    ELSE IF unit.kind = "HALT" THEN EncodeHalt
    ELSE AppendInst(EncodeInst(unit.payload, labels))

\* The state second_pass holds: st = [outwords, pc, err].
SecondPassStart == [outwords |-> <<>>, pc |-> 0, err |-> NoErr]

\* The loop's state after the turn whose outcome is r.
AfterUnit(st, r) ==
    IF r.err # NoErr THEN [st EXCEPT !.err = r.err]
    ELSE [st EXCEPT !.outwords = @ \o r.words, !.pc = @ + r.adv]

\* One turn of second_pass's loop on its state.
SecondPassBody(st, unit, labels) == AfterUnit(st, SecondPassUnit(unit, labels))

RECURSIVE SecondPassRange(_, _, _, _, _)
\* second_pass's loop over the units lo..hi in order (the first half, then the
\* second); an error ends it.
SecondPassRange(st, expanded, labels, lo, hi) ==
    IF lo > hi \/ st.err # NoErr THEN st
    ELSE IF lo = hi THEN SecondPassBody(st, expanded[lo], labels)
    ELSE LET mid == (lo + hi) \div 2
             half == SecondPassRange(st, expanded, labels, lo, mid)
         IN IF half.pc >= 0 THEN SecondPassRange(half, expanded, labels, mid + 1, hi)
            ELSE half

\* second_pass(expanded, labels)
second_pass(expanded, labels) ==
    SecondPassRange(SecondPassStart, expanded, labels, 1, Len(expanded))

\* -------------------------------------------------------------- write_rom

RECURSIVE FieldVal(_, _, _)
\* The value of the n bits of word w from bit lo up.
FieldVal(w, lo, n) ==
    IF n = 0 THEN 0
    ELSE (IF lo \in w THEN 1 ELSE 0) + 2 * FieldVal(w, lo + 1, n - 1)

\* f"{w:016x}": the 16 hexadecimal digits of w, the highest first.
Hex16(w) ==
    LET D(n) == Char(HexLower, FieldVal(w, 4 * n, 4) + 1)
    IN D(15) \o D(14) \o D(13) \o D(12) \o D(11) \o D(10) \o D(9) \o D(8)
         \o D(7) \o D(6) \o D(5) \o D(4) \o D(3) \o D(2) \o D(1) \o D(0)

NoFile == [exists |-> FALSE, lines |-> <<>>]

\* A variant of write_rom that appends pad zero words, not the missing ones.
write_rom_PadsByPad(outwords, pad) ==
    [exists |-> TRUE,
     lines |-> [k \in 1..Len(outwords) |-> Hex16(outwords[k])]
                  \o [k \in 1..pad |-> "0000000000000000"]]

\* write_rom(outwords, outname, pad): the file it leaves, a line per word and
\* then the missing zero words.  pad = 0 stands for None: `if pad:` takes both
\* the same way.
write_rom(outwords, pad) ==
    LET missing == pad - Len(outwords)
        words == [k \in 1..Len(outwords) |-> Hex16(outwords[k])]
        zeros == IF pad # 0 /\ missing > 0
                 THEN [k \in 1..missing |-> "0000000000000000"]
                 ELSE <<>>
    IN [exists |-> TRUE, lines |-> words \o zeros]

\* ------------------------------------------------------------------- main

\* pad = args.pad if args.pad and args.pad > 0 else None
main_pad(p) == IF p # 0 /\ p > 0 THEN p ELSE 0

\* A variant of AfterTurn in which main writes the output whatever happened.
AfterTurn_WritesAnyway(e, next) == IF e # NoErr THEN "write_rom" ELSE next

\* Where main stands after a turn of a pass: an exception raised in the pass
\* leaves main (nothing catches it), else main goes on at `next`.
AfterTurn(e, next) == IF e # NoErr THEN "error" ELSE next

\* ----------------------------------------------------------------- inputs

LongLine == ".string \"" \o Rep("A", LongLen) \o "\""

\* The lines every short source file is made of.
CoreLines ==
    {"L:", ".m:", "JMP L", "jz r1, L ; loop", ".string \"a\\n\"", ".halt", "NOP r1",
     "ADD r1", "LI r2,0x1F"}

RECURSIVE SeqsUpTo(_, _)
\* The sequences of at most n elements of S.
SeqsUpTo(S, n) ==
    IF n = 0 THEN {<<>>}
    ELSE LET shorter == SeqsUpTo(S, n - 1)
         IN shorter \cup {Append(q, x) : q \in shorter, x \in S}

\* Source files around a string of LongLen characters, which puts a label
\* beyond word address 255, and files of the other mnemonics, operand forms,
\* escapes and errors.
LongPrograms ==
    {<<LongLine, "L:", "JMP L">>,
     <<"JMP L", LongLine, "L:">>,
     <<"jz r1, L", LongLine, "L:", "JZ R1 L">>}

OtherPrograms ==
    {<<"LI r1,5", "ADD r1,r1", ".halt">>,
     <<"  .asciz \"\\x41\\U0001F600\"  # text", ".end:", "\tJMP .end", "SUB r2,R3",
       "SHL 4,5", "HALT">>,
     <<"LD r1,0x1FF", "ST R2, 101b", "LI 3,-1", "JMP 0x12c", "">>,
     <<".asciz \"\"", "_x1:", ".string \"\"", "jmp _x1">>,
     <<"NOP", "LI r9,5">>,
     <<"L:", "LD r1,zz">>,
     <<"FOO r1">>,
     <<".string \"a\\\"">>,
     <<".string \"oops">>,
     <<"JMP">>,
     <<"JMP nowhere">>}

Sources == SeqsUpTo(CoreLines, MaxLines) \cup LongPrograms \cup OtherPrograms

\* A file that is at the output's path before the run.
OldRom == [exists |-> TRUE, lines |-> <<"old">>]

Pads == (0 - 1)..MaxPad

\* The arguments emit_inst_word is applied to on its own: sampled immediates.
ImmSamples ==
    (0..ImmLow) \cup {65535 - k : k \in 0..ImmLow} \cup {2 ^ k : k \in 0..15}
       \cup {255, 256, 4660, 43690, 21845}
\* Every opcode, rd and rs with the sampled immediates, and every immediate
\* with the smallest and the largest value of the other fields.
EncArgs ==
    [opcode : 0..15, rd : 0..7, rs : 0..7, imm16 : ImmSamples]
       \cup [opcode : {0, 15}, rd : {0, 7}, rs : {0, 7}, imm16 : 0..65535]
NoArgs == [opcode |-> 0, rd |-> 0, rs |-> 0, imm16 |-> 0]
NoWord == {64}

\* ------------------------------------------------------------------ state

VARIABLES
    srcfile,    \* the lines of the source file
    romfile,    \* the file at the output's path
    rom0,       \* history: the file at the output's path before the run
    phase,      \* where main stands
    lines,      \* main's lines
    idx,        \* first_pass: the line its loop is at
    labels,     \* first_pass's labels, then main's
    expanded,   \* first_pass's expanded, then main's
    pc1,        \* first_pass's pc
    unit_pc,    \* history: first_pass's pc when it appended each unit
    pos,        \* second_pass: the unit its loop is at
    pc2,        \* second_pass's pc
    outwords,   \* second_pass's outwords, then main's
    err,        \* the exception that ended the run
    pad_arg,    \* args.pad
    enc_args,   \* emit_inst_word on its own: its arguments
    enc_word    \* emit_inst_word on its own: its result

asm_vars == <<srcfile, romfile, rom0, phase, lines, idx, labels, expanded, pc1,
              unit_pc, pos, pc2, outwords, err, pad_arg>>
enc_vars == <<enc_args, enc_word>>
vars == <<asm_vars, enc_vars>>

AsmIdle ==
    /\ srcfile = <<>>
    /\ romfile = NoFile
    /\ rom0 = NoFile
    /\ phase = "idle"
    /\ lines = <<>>
    /\ idx = 0
    /\ labels = <<>>
    /\ expanded = <<>>
    /\ pc1 = 0
    /\ unit_pc = <<>>
    /\ pos = 0
    /\ pc2 = 0
    /\ outwords = <<>>
    /\ err = NoErr
    /\ pad_arg = 0

\* main is entered: a source file, and a file or none at the output's path.
Init ==
    /\ srcfile \in Sources
    /\ romfile \in {NoFile, OldRom}
    /\ rom0 = romfile
    /\ phase = "start"
    /\ lines = <<>>
    /\ idx = 0
    /\ labels = <<>>
    /\ expanded = <<>>
    /\ pc1 = 0
    /\ unit_pc = <<>>
    /\ pos = 0
    /\ pc2 = 0
    /\ outwords = <<>>
    /\ err = NoErr
    /\ pad_arg = 0
    /\ enc_args = NoArgs
    /\ enc_word = NoWord

\* lines = read_source(args.source), and first_pass is entered.
ReadSource ==
    /\ phase = "start"
    /\ lines' = read_source(srcfile)
    /\ idx' = 1
    /\ phase' = "first_pass"
    /\ UNCHANGED <<srcfile, romfile, rom0, labels, expanded, pc1, unit_pc, pos, pc2,
                   outwords, err, pad_arg, enc_vars>>

\* main's state after a turn of first_pass's loop that left the pass in st.
FirstPassTurn(st) ==
    /\ labels' = st.labels
    /\ expanded' = st.expanded
    /\ pc1' = st.pc
    /\ unit_pc' = st.unit_pc
    /\ err' = IF st.err # NoErr THEN st.err ELSE err
    /\ phase' = AfterTurn(st.err, "first_pass")
    /\ idx' = IF st.err # NoErr THEN idx ELSE idx + 1

\* One turn of first_pass's loop.
FirstPassStep ==
    /\ phase = "first_pass"
    /\ idx <= Len(lines)
    /\ FirstPassTurn(FirstPassLine([labels |-> labels, expanded |-> expanded,
                                    pc |-> pc1, unit_pc |-> unit_pc, err |-> NoErr],
                                   lines[idx].code))
    /\ UNCHANGED <<srcfile, romfile, rom0, lines, pos, pc2, outwords, pad_arg, enc_vars>>

\* first_pass returns expanded and labels, and second_pass is entered.
FirstPassReturn ==
    /\ phase = "first_pass"
    /\ idx > Len(lines)
    /\ phase' = "second_pass"
    /\ pos' = 1
    /\ pc2' = 0
    /\ outwords' = <<>>
    /\ UNCHANGED <<srcfile, romfile, rom0, lines, idx, labels, expanded, pc1, unit_pc,
                   err, pad_arg, enc_vars>>

\* main's state after a turn of second_pass's loop that left the pass in st.
SecondPassTurn(st) ==
    /\ outwords' = st.outwords
    /\ pc2' = st.pc
    /\ err' = IF st.err # NoErr THEN st.err ELSE err
    /\ phase' = AfterTurn(st.err, "second_pass")
    /\ pos' = IF st.err # NoErr THEN pos ELSE pos + 1

\* One turn of second_pass's loop.
SecondPassStep ==
    /\ phase = "second_pass"
    /\ pos <= Len(expanded)
    /\ SecondPassTurn(SecondPassBody([outwords |-> outwords, pc |-> pc2, err |-> NoErr],
                                     expanded[pos], labels))
    /\ UNCHANGED <<srcfile, romfile, rom0, lines, idx, labels, expanded, pc1, unit_pc,
                   pad_arg, enc_vars>>

\* second_pass returns outwords.
SecondPassReturn ==
    /\ phase = "second_pass"
    /\ pos > Len(expanded)
    /\ phase' = "write_rom"
    /\ UNCHANGED <<srcfile, romfile, rom0, lines, idx, labels, expanded, pc1, unit_pc,
                   pos, pc2, outwords, err, pad_arg, enc_vars>>

\* write_rom(outwords, args.out, pad=pad), args.pad being p.
WriteRom(p) ==
    /\ phase = "write_rom"
    /\ pad_arg' = p
    /\ romfile' = write_rom(outwords, main_pad(p))
    /\ phase' = "done"
    /\ UNCHANGED <<srcfile, rom0, lines, idx, labels, expanded, pc1, unit_pc, pos, pc2,
                   outwords, err, enc_vars>>

Next ==
    \/ ReadSource
    \/ FirstPassStep
    \/ FirstPassReturn
    \/ SecondPassStep
    \/ SecondPassReturn
    \/ \E p \in Pads : WriteRom(p)

Spec == Init /\ [][Next]_vars

\* ------------------------------------------- emit_inst_word on its own

EncInit ==
    /\ AsmIdle
    /\ enc_args \in EncArgs
    /\ enc_word = NoWord

\* word = emit_inst_word(opcode, rd, rs, imm16)
EmitInstWord ==
    /\ enc_word = NoWord
    /\ enc_word' = emit_inst_word(enc_args.opcode, enc_args.rd, enc_args.rs,
                                  enc_args.imm16)
    /\ UNCHANGED <<asm_vars, enc_args>>

EncNext == EmitInstWord

SpecEnc == EncInit /\ [][EncNext]_vars

\* --------------------------------------------- the properties' vocabulary

\* The fields of a word, by the layout of emit_inst_word's docstring.
Opcode(w) == FieldVal(w, 60, 4)
Rd(w) == FieldVal(w, 57, 3)
Rs(w) == FieldVal(w, 54, 3)
Imm16(w) == FieldVal(w, 0, 16)
ReservedBits == 16..53

\* The words a unit stands for: two for a BYTE, one for a HALT or an INST.
UnitWords(unit) == IF unit.kind = "BYTE" THEN 2 ELSE 1

RECURSIVE SumWords(_, _, _)
\* The words the units lo..hi stand for.
SumWords(units, lo, hi) ==
    IF lo > hi THEN 0
    ELSE IF lo = hi THEN UnitWords(units[lo])
    ELSE SumWords(units, lo, (lo + hi) \div 2) + SumWords(units, (lo + hi) \div 2 + 1, hi)

\* The units of the first n lines of the source file.
UnitsOfLines(n) == first_pass(read_source(SubSeq(srcfile, 1, n))).expanded

\* The line that declares label `name`.
DeclLine(name) == CHOOSE n \in 1..Len(srcfile) : Strip(StripComment(srcfile[n])) = name \o ":"

\* The words of all the units before the line that declares `name`.
WordsBeforeLabel(name) ==
    SumWords(UnitsOfLines(DeclLine(name) - 1), 1, Len(UnitsOfLines(DeclLine(name) - 1)))

\* The tokens of an INST unit, and the token a JMP or JZ names its target by.
PartsOf(unit) == Split(Strip(unit.payload))
OpOf(unit) == Upper(PartsOf(unit)[1])
JumpToken(unit) == IF OpOf(unit) = "JMP" THEN PartsOf(unit)[2] ELSE PartsOf(unit)[3]

\* A JMP or JZ whose target token is a label of the table.
IsLabelJump(unit) ==
    /\ unit.kind = "INST"
    /\ \/ OpOf(unit) = "JMP" /\ Len(PartsOf(unit)) >= 2
       \/ OpOf(unit) = "JZ" /\ Len(PartsOf(unit)) >= 3
    /\ JumpToken(unit) \in DOMAIN labels

\* second_pass has just encoded the unit before `pos`.
JustEncoded == phase = "second_pass" /\ pos > 1
LastUnit == expanded[pos - 1]
LastWord == outwords[Len(outwords)]

\* Both passes are over for the source file, without an error.
Assembled == phase = "write_rom"

\* -------------------------------------------------------------- properties

\* C1: when second_pass starts on a unit, its pc is the pc first_pass held when
\* it appended that unit and is the number of words already in outwords; at the
\* end the two passes' pcs agree.
C1_PassesAgree ==
    /\ (phase = "second_pass" /\ pos <= Len(expanded))
          => (pc2 = unit_pc[pos] /\ pc2 = Len(outwords))
    /\ (phase \in {"write_rom", "done"}) => (pc2 = pc1 /\ pc2 = Len(outwords))

\* C1's case: second_pass is at the last of at least three units, BYTE units
\* among those before it.
C1_Witness ==
    /\ phase = "second_pass"
    /\ pos = Len(expanded)
    /\ pos >= 3
    /\ pc2 = unit_pc[pos]
    /\ pc2 > pos - 1

\* C2 as stated: a JMP or JZ that names a label is encoded with the number of
\* words of all the units before the label's declaration, wherever the label is
\* declared.
C2_Original ==
    (JustEncoded /\ IsLabelJump(LastUnit))
       => Imm16(LastWord) = WordsBeforeLabel(JumpToken(LastUnit))

\* C2 as amended: a JMP or JZ that names a label, declared before or after it,
\* is encoded with the number of words of all the units before the label's
\* declaration, modulo 256.
C2_LabelResolution ==
    (JustEncoded /\ IsLabelJump(LastUnit))
       => Imm16(LastWord) = WordsBeforeLabel(JumpToken(LastUnit)) % 256

\* C2's case: the first unit is a jump to a label declared after it.
C2_Witness ==
    /\ JustEncoded
    /\ pos = 2
    /\ IsLabelJump(LastUnit)
    /\ labels[JumpToken(LastUnit)] > 0
    /\ Imm16(LastWord) = labels[JumpToken(LastUnit)] % 256

\* C3: the output file is written only when both passes are over without an
\* error; a run that an error ended leaves the file at the output's path as it
\* was, absent or with its old content.
C3_NoOutputOnError ==
    /\ phase = "error" => (romfile = rom0 /\ err \in Errors)
    /\ err # NoErr => romfile = rom0
    /\ romfile # rom0
          => (phase = "done" /\ err = NoErr /\ idx > Len(lines) /\ pos > Len(expanded))

\* C3's case: an error ended second_pass after it had emitted words, a file
\* being at the output's path.
C3_Witness ==
    /\ phase = "error"
    /\ Len(outwords) > 0
    /\ rom0 = OldRom
    /\ romfile = OldRom

\* C4: a binding of the label table never changes and never goes; a second
\* declaration of a name ends first_pass with the duplicate-label error and
\* leaves the table as it was; after first_pass the table does not change.
C4_LabelsWriteOnce ==
    [][/\ \A n \in DOMAIN labels : n \in DOMAIN labels' /\ labels'[n] = labels[n]
       /\ phase # "first_pass" => labels' = labels
       /\ (/\ phase = "first_pass"
           /\ idx <= Len(lines)
           /\ IsLabelLine(Strip(lines[idx].code))
           /\ SubSeq(Strip(lines[idx].code), 1, Len(Strip(lines[idx].code)) - 1)
                 \in DOMAIN labels)
             => (phase' = "error" /\ err' = DuplicateLabel /\ labels' = labels)]_vars

\* C4's case: a second declaration ended the run, the first binding in place.
C4_Witness ==
    /\ phase = "error"
    /\ err = DuplicateLabel
    /\ labels # <<>>

\* C5: a JMP or JZ that names a label at word address a has a mod 256 in its
\* immediate field, the upper 8 bits of the field zero; address 300 gives 44;
\* and the label's address raises no error, however large.
C5_AddressTruncation ==
    /\ (JustEncoded /\ IsLabelJump(LastUnit))
          => /\ Imm16(LastWord) = labels[JumpToken(LastUnit)] % 256
             /\ LastWord \cap (8..15) = {}
             /\ labels[JumpToken(LastUnit)] = 300 => Imm16(LastWord) = 44
    /\ (phase = "error" /\ pos >= 1 /\ IsLabelJump(expanded[pos]))
          => (OpOf(expanded[pos]) = "JZ" /\ err = BadRegister)

\* C5's case: a jump to a label at word address 300.
C5_Witness ==
    /\ JustEncoded
    /\ IsLabelJump(LastUnit)
    /\ labels[JumpToken(LastUnit)] = 300
    /\ Imm16(LastWord) = 44

\* The number of 1 bits of the natural number n < 2^16.
PopCount(n) == Cardinality({b \in 0..15 : (n \div (2 ^ b)) % 2 = 1})

\* C6: for opcode in 0..15, rd and rs in 0..7 and imm16 in 0..65535, the bits
\* [63:60], [59:57], [56:54] and [15:0] of emit_inst_word's word are opcode, rd,
\* rs and imm16; no field's bits are another's (the word has as many 1 bits as
\* the four arguments together); the reserved bits and all beyond bit 63 are 0.
C6_RoundTrip ==
    enc_word # NoWord
       => /\ Opcode(enc_word) = enc_args.opcode
          /\ Rd(enc_word) = enc_args.rd
          /\ Rs(enc_word) = enc_args.rs
          /\ Imm16(enc_word) = enc_args.imm16
          /\ Cardinality(enc_word) = PopCount(enc_args.opcode) + PopCount(enc_args.rd)
                                       + PopCount(enc_args.rs) + PopCount(enc_args.imm16)
          /\ enc_word \cap ReservedBits = {}
          /\ enc_word \subseteq 0..63

\* C6's case: the word of the largest value of every field.
C6_Witness ==
    /\ enc_word # NoWord
    /\ enc_args = [opcode |-> 15, rd |-> 7, rs |-> 7, imm16 |-> 65535]
    /\ Opcode(enc_word) = 15
    /\ Imm16(enc_word) = 65535

\* Line n of the source file is a directive of the given kind.
IsDirective(n, kind) ==
    /\ MatchStringDirective(Strip(StripComment(srcfile[n]))).matched
    /\ MatchStringDirective(Strip(StripComment(srcfile[n]))).kind = kind

\* The .string line `ln` with .asciz for .string, its content kept.
AscizOf(ln) ==
    SubSeq(ln, 1, SkipSpaces(ln, 1) - 1) \o ".asciz"
       \o SubSeq(ln, SkipSpaces(ln, 1) + 7, Len(ln))

\* What .asciz for .string on line n changes: a are first_pass's results for
\* the changed file and o second_pass's, m the units of the file's lines 1..n.
AscizAddsOne(n, a, o, m) ==
    /\ a.err = NoErr
    /\ o.err = NoErr
    /\ a.expanded = SubSeq(expanded, 1, m) \o <<Unit("BYTE", 0)>>
                       \o SubSeq(expanded, m + 1, Len(expanded))
    /\ a.pc = pc1 + 2
    /\ Len(o.outwords) = Len(outwords) + 2
    /\ DOMAIN a.labels = DOMAIN labels
    /\ \A lab \in DOMAIN labels :
          a.labels[lab] = labels[lab] + (IF DeclLine(lab) > n THEN 2 ELSE 0)

AscizRun(n, a, m) == AscizAddsOne(n, a, second_pass(a.expanded, a.labels), m)

\* C7: in a file that assembles, .asciz for .string on a line with the same
\* content gives one more BYTE unit, a NUL after the line's other units, a pc
\* 2 higher, 2 more output words, and every label declared after the line 2
\* higher (the labels before it unchanged).
C7_AscizOneMore ==
    Assembled
       => \A n \in 1..Len(srcfile) :
             IsDirective(n, "string")
                => AscizRun(n,
                            first_pass(read_source([srcfile EXCEPT ![n] = AscizOf(@)])),
                            Len(UnitsOfLines(n)))

\* C7's case: a file that assembles, a .string line of some characters in it
\* and a label declared after that line.
C7_Witness ==
    /\ Assembled
    /\ \E n \in 1..Len(srcfile) :
          /\ IsDirective(n, "string")
          /\ Len(UnitsOfLines(n)) > Len(UnitsOfLines(n - 1))
          /\ \E lab \in DOMAIN labels : DeclLine(lab) > n

\* The operand tokens an INST unit has, and those its mnemonic takes.
Mnemonics == {"NOP", "ADD", "SUB", "LI", "LD", "ST", "JZ", "JMP", "SHL", "HALT"}
Arity(op) ==
    IF op \in {"NOP", "HALT"} THEN 0 ELSE IF op = "JMP" THEN 1 ELSE 2
WrongArity(unit) ==
    /\ unit.kind = "INST"
    /\ OpOf(unit) \in Mnemonics
    /\ Len(PartsOf(unit)) - 1 # Arity(OpOf(unit))
ArityMismatch == "ArityMismatch"

\* C8: an instruction whose number of operand tokens is not its mnemonic's
\* arity emits no word and ends the run with the arity error.
C8_ArityChecked ==
    /\ JustEncoded => ~WrongArity(LastUnit)
    /\ (phase = "error" /\ pos >= 1 /\ WrongArity(expanded[pos])) => err = ArityMismatch

\* The lines of the file write_rom leaves.
RomLines == romfile.lines
Max(a, b) == IF a >= b THEN a ELSE b

\* C9: the file write_rom leaves holds the emitted words in order, a line each,
\* then zero words up to the requested pad count: max(emitted, pad) lines, and
\* the emitted count when the pad count is absent, zero or negative.
C9_Padding ==
    phase = "done"
       => /\ romfile.exists
          /\ Len(RomLines) = Max(Len(outwords), pad_arg)
          /\ \A k \in 1..Len(outwords) : RomLines[k] = Hex16(outwords[k])
          /\ \A k \in (Len(outwords) + 1)..Len(RomLines) : RomLines[k] = "0000000000000000"
          /\ pad_arg <= Len(outwords) => Len(RomLines) = Len(outwords)
          /\ pad_arg > Len(outwords) => Len(RomLines) - Len(outwords) = pad_arg - Len(outwords)

\* C9's case: some words emitted, and a pad count beyond them.
C9_Witness ==
    /\ phase = "done"
    /\ Len(outwords) > 0
    /\ pad_arg > Len(outwords)
    /\ Len(RomLines) = pad_arg

\* The words at `at` and `at + 1` are the pair of the character cp: LI r0, cp
\* (masked to 16 bits) and ST r0, 0xFF.
IsBytePair(at, cp) ==
    /\ Opcode(outwords[at]) = 3
    /\ Rd(outwords[at]) = 0
    /\ Rs(outwords[at]) = 0
    /\ Imm16(outwords[at]) = cp % 65536
    /\ outwords[at] \cap ReservedBits = {}
    /\ Opcode(outwords[at + 1]) = 5
    /\ Rd(outwords[at + 1]) = 0
    /\ Rs(outwords[at + 1]) = 0
    /\ Imm16(outwords[at + 1]) = 255
    /\ outwords[at + 1] \cap ReservedBits = {}

\* The characters txt of the literal of a line after m units of `base` words
\* are the next units, and their pairs the next words, in the literal's order.
LoweredInOrder(txt, m, base) ==
    \A k \in 1..Len(txt) :
       /\ expanded[m + k] = Unit("BYTE", txt[k])
       /\ IsBytePair(base + 2 * k - 1, txt[k])

\* C10: in a file that assembles, the k-th character of the unescaped literal
\* of a .string or .asciz line is the k-th unit of the line, and its words are
\* the k-th pair of consecutive words of the line: LI r0, ord(ch) masked to 16
\* bits, then ST r0, 0xFF.
C10_StringLowering ==
    Assembled
       => \A n \in 1..Len(srcfile) :
             (IsDirective(n, "string") \/ IsDirective(n, "asciz"))
                => LoweredInOrder(
                      unescape_string(
                         MatchStringDirective(Strip(StripComment(srcfile[n]))).raw).txt,
                      Len(UnitsOfLines(n - 1)),
                      SumWords(expanded, 1, Len(UnitsOfLines(n - 1))))

\* C10's case: a file that assembles, with a directive of two characters or
\* more, one of them beyond 16 bits.
C10_Witness ==
    /\ Assembled
    /\ \E k \in 1..(Len(expanded) - 1) :
          /\ expanded[k].kind = "BYTE"
          /\ expanded[k + 1].kind = "BYTE"
          /\ expanded[k + 1].payload > 65535
          /\ IsBytePair(unit_pc[k + 1] + 1, expanded[k + 1].payload)

====
